---- MODULE Spec2Model ----
(***************************************************************************)
(* Command handlers of coc-deno (src/src/commands.ts).                     *)
(*                                                                         *)
(* The handlers run on the single JavaScript thread of the extension host: *)
(* a handler runs without interruption from its invocation to its first    *)
(* `await`, and from the settlement of that await to the next one.  The    *)
(* variable `running` names the test() invocation that holds the thread;   *)
(* while it is set no other handler takes a step.                          *)
(***************************************************************************)
EXTENDS Naturals, Sequences, FiniteSets, TLC

\* ---------------------------------------------------------------- bounds

\* test() invocations in the terminal-lifecycle specifications
MaxInv == 3
\* test() invocations in the configuration specification
MaxCfgInv == 1
\* initializeWorkspace invocations
MaxInitWs == 1
\* checkTSServer calls (direct ones and the one initializeWorkspace makes)
MaxChecks == 2

\* invocations of the cache callback
MaxCache == 2
\* invocations of the status callback
MaxStatus == 3
\* of which the cache specification runs
MaxCacheStatus == 1
\* invocations of the restart callback
MaxRestart == 3

Inv == 1 .. MaxInv
CInv == 1 .. MaxCache
SInv == 1 .. MaxStatus
RInv == 1 .. MaxRestart

\* --------------------------------------------------------- configuration

\* src/src/constants.ts (imported at line 18): the extension's namespace.
EXTENSION_NS == "deno"

\* A configuration value with its JavaScript type; `value` of an undefined
\* entry is a placeholder of the key's type.
Entry(t, v) == [type |-> t, value |-> v]
UndefinedBool == Entry("undefined", FALSE)
UndefinedStr == Entry("undefined", "")
UndefinedArr == Entry("undefined", <<>>)
Bool(b) == Entry("boolean", b)
Str(s) == Entry("string", s)
Arr(a) == Entry("array", a)
\* a number where an array is expected: `[...5]` throws a TypeError
Num == Entry("number", <<>>)

\* WorkspaceConfiguration.has(key)
Has(cfg, key) == cfg[key].type # "undefined"

\* WorkspaceConfiguration.get(key, defaultValue)
Get(cfg, key, default) == IF cfg[key].type = "undefined" THEN default ELSE cfg[key].value

\* WorkspaceConfiguration.update(key, value), on namespace ns
Update(conf, ns, key, entry) == [conf EXCEPT ![ns][key] = entry]

\* JavaScript String(x) of a configuration value
String(e) ==
  CASE e.type = "string" -> e.value
    [] e.type = "boolean" -> (IF e.value THEN "true" ELSE "false")
    [] OTHER -> "undefined"

\* The settings the model starts from: what the user's configuration files hold.
DenoConfigs ==
  { [ enable |-> UndefinedBool, lint |-> UndefinedBool, unstable |-> u,
      importMap |-> m, cache |-> c, path |-> p, testArgs |-> a ] :
      u \in {UndefinedBool, Bool(TRUE), Bool(FALSE)},
      m \in {UndefinedStr, Str("./import_map.json")},
      c \in {UndefinedStr, Str("/tmp/deno_dir")},
      p \in {UndefinedStr, Str("/opt/deno")},
      a \in {UndefinedArr, Arr(<<"-A", "--coverage">>), Num} }

TsserverConfigs == { [enable |-> e] : e \in {UndefinedBool, Bool(TRUE), Bool(FALSE)} }

PrettierConfigs == { [disableLanguages |-> UndefinedArr] }

\* ------------------------------------------------------------------ uris

BadUri == "a b:c"

Uris == {"file:///a/b.ts", "file:///a/my%20dir/b.ts", BadUri}

Names == {"t1", "my test"}

\* Uri.parse(uri): the scheme and the percent-decoded path; parse throws on a
\* scheme with illegal characters.
UriParse(uri) ==
  CASE uri = "file:///a/b.ts" -> [ok |-> TRUE, scheme |-> "file", path |-> "/a/b.ts"]
    [] uri = "file:///a/my%20dir/b.ts" -> [ok |-> TRUE, scheme |-> "file", path |-> "/a/my dir/b.ts"]
    [] OTHER -> [ok |-> FALSE, scheme |-> "", path |-> ""]

\* Uri.fsPath
FsPath(uri) == UriParse(uri).path

\* workspace.root
WorkspaceRoot == "/work"

\* ----------------------------------------------------------------- state

VARIABLES
  configuration,    \* workspace.getConfiguration(ns): namespace -> key -> entry
  prettierInstalled,\* extensions.all holds "coc-prettier"
  terminal,         \* line 25: the module-level slot; 0 is undefined, else a terminal's id
  terminals,        \* the Terminal objects the host has made, by id (= the invocation that asked)
  pc,               \* where each test() invocation stands
  frame,            \* the locals of each test() invocation (uri, name, env, bin, args)
  prev,             \* the slot's value when the invocation began
  sentTo,           \* the terminal each invocation called sendText on (0: none yet)
  running,          \* the test() invocation holding the JavaScript thread (0: none)
  iwPc,             \* where the initializeWorkspace callback stands
  iwItems,          \* the items it offered to the picker
  iwCount,          \* initializeWorkspace invocations so far
  iwLast,           \* how the last initializeWorkspace invocation ended
  messages,         \* window.showMessage calls
  restarts,         \* `CocRestart` commands sent to the editor host
  tsChecks,         \* checkTSServer calls so far
  activeDoc,        \* the uri of the document active in the editor
  cpc,              \* where each invocation of the cache callback stands
  cdoc,             \* the document each invocation's getCurrentState() lookup was made on
  creq,             \* the request each cache invocation sent through client.sendRequest
  cscope,           \* the progress scope each cache invocation opened
  cresult,          \* what the promise each cache invocation returned settled with
  spc,              \* where each invocation of the status callback stands
  sreq,             \* the request each status invocation sent
  sresult,          \* what the promise each status invocation returned settled with
  echoed,           \* the window.echoLines calls of each status invocation
  rpc,              \* where each invocation of the restart callback stands
  clientUp,         \* the client's connection to the analysis process is up
  clientLog         \* the stop() calls, their settlements and the start() calls, in order

configVars == <<configuration, prettierInstalled>>
testVars == <<terminal, terminals, pc, frame, prev, sentTo, running>>
initWsVars == <<iwPc, iwItems, iwCount, iwLast, messages, restarts, tsChecks>>
cacheVars == <<activeDoc, cpc, cdoc, creq, cscope, cresult>>
statusVars == <<spc, sreq, sresult, echoed>>
restartVars == <<rpc, clientUp, clientLog>>
rpcVars == <<cacheVars, statusVars, restartVars>>

\* ------------------------------------------------- test(): command line

RECURSIVE Join(_, _)
\* Array.prototype.join(sep)
Join(arr, sep) ==
  IF arr = <<>> THEN ""
  ELSE IF Len(arr) = 1 THEN arr[1]
  ELSE arr[1] \o sep \o Join(Tail(arr), sep)

\* line 114: `[...config.get("codeLens.testArgs", [])]` throws unless the value is iterable
TestArgsIterable(cfg) == cfg["testArgs"].type \in {"undefined", "array"}

\* lines 115-117
UnstableArgs(cfg) == IF Has(cfg, "unstable") THEN <<"--unstable">> ELSE <<>>

\* lines 118-120
ImportMapArgs(cfg) ==
  IF Has(cfg, "importMap") THEN <<"--import-map", String(cfg["importMap"])>> ELSE <<>>

\* lines 114-120: testArgs after the pushes
TestArgs(cfg) == Get(cfg, "testArgs", <<>>) \o UnstableArgs(cfg) \o ImportMapArgs(cfg)

NoEnv == [defined |-> FALSE, vars |-> {}]

\* Env without the test of line 121: an object even when "cache" is not set,
\* {DENO_DIR: undefined}
Env_alwaysObject(cfg) ==
  [defined |-> TRUE, vars |-> {<<"DENO_DIR", Get(cfg, "cache", "undefined")>>}]

\* lines 121-123
Env(cfg) ==
  IF Has(cfg, "cache")
    THEN [defined |-> TRUE, vars |-> {<<"DENO_DIR", Get(cfg, "cache", "")>>}]
    ELSE NoEnv

\* line 124
Bin(cfg) == Get(cfg, "path", "deno")

\* Quoted with the double quotes lost
Quoted_bare(name) == name

\* line 129: the template literal `"${name}"`
Quoted(name) == "\"" \o name \o "\""

\* lines 125-131
Args(cfg, uri, name) == <<"test">> \o TestArgs(cfg) \o <<"--filter", Quoted(name), FsPath(uri)>>

\* line 138: the template literal `${bin} ${args.join(" ")}`
CommandLine(bin, args) == bin \o " " \o Join(args, " ")

\* lines 113-131 throw: the spread of a non-iterable, or Uri.parse
BuildThrows(cfg, uri) == ~TestArgsIterable(cfg) \/ ~UriParse(uri).ok

NoFrame == [uri |-> "", name |-> "", env |-> NoEnv, bin |-> "", args |-> <<>>]

NoTerminal ==
  [created |-> FALSE, disposed |-> FALSE, name |-> "", cwd |-> "", env |-> NoEnv, input |-> <<>>]

Created == {t \in Inv : terminals[t].created}
Disposed == {t \in Inv : terminals[t].disposed}
Live == Created \ Disposed

\* ------------------------------------------------- test(): the handler

\* Invocations are numbered in the order they are made.
NextInvocation(i) == pc[i] = "idle" /\ \A j \in Inv : j < i => pc[j] # "idle"

\* test_build with lines 133-136 moved ahead of the build: the old terminal is
\* disposed before the command line is known to be constructible
test_build_disposeFirst(i, uri, name) ==
  /\ running = 0
  /\ NextInvocation(i)
  /\ LET cfg == configuration[EXTENSION_NS] IN
       IF BuildThrows(cfg, uri)
         THEN /\ pc' = [pc EXCEPT ![i] = "threw"]
              /\ UNCHANGED <<frame, running>>
         ELSE /\ pc' = [pc EXCEPT ![i] = "L133"]
              /\ frame' = [frame EXCEPT ![i] =
                   [uri |-> uri, name |-> name, env |-> Env(cfg), bin |-> Bin(cfg),
                    args |-> Args(cfg, uri, name)]]
              /\ running' = i
  /\ prev' = [prev EXCEPT ![i] = terminal]
  /\ IF terminal # 0
       THEN /\ terminals' = [terminals EXCEPT ![terminal].disposed = TRUE]
            /\ terminal' = 0
       ELSE UNCHANGED <<terminal, terminals>>
  /\ UNCHANGED sentTo
  /\ UNCHANGED <<configVars, initWsVars, rpcVars>>

\* lines 112-131: read the configuration and build env, bin and args.  A throw
\* rejects the promise test() returns before line 133 is reached.
test_build(i, uri, name) ==
  /\ running = 0
  /\ NextInvocation(i)
  /\ LET cfg == configuration[EXTENSION_NS] IN
       IF BuildThrows(cfg, uri)
         THEN /\ pc' = [pc EXCEPT ![i] = "threw"]
              /\ UNCHANGED <<frame, running>>
         ELSE /\ pc' = [pc EXCEPT ![i] = "L133"]
              /\ frame' = [frame EXCEPT ![i] =
                   [uri |-> uri, name |-> name, env |-> Env(cfg), bin |-> Bin(cfg),
                    args |-> Args(cfg, uri, name)]]
              /\ running' = i
  /\ prev' = [prev EXCEPT ![i] = terminal]
  /\ UNCHANGED <<terminal, terminals, sentTo>>
  /\ UNCHANGED <<configVars, initWsVars, rpcVars>>

\* test_dispose with the dispose() call of line 134 lost: the slot is only cleared
test_dispose_leak(i) ==
  /\ running = i
  /\ pc[i] = "L133"
  /\ terminal' = 0
  /\ pc' = [pc EXCEPT ![i] = "L137"]
  /\ UNCHANGED <<terminals, frame, prev, sentTo, running>>
  /\ UNCHANGED <<configVars, initWsVars, rpcVars>>

\* test_dispose with a reuse path: a terminal of the same name is kept
test_dispose_reuse(i) ==
  /\ running = i
  /\ pc[i] = "L133"
  /\ IF terminal # 0 /\ terminals[terminal].name # frame[i].name
       THEN /\ terminals' = [terminals EXCEPT ![terminal].disposed = TRUE]
            /\ terminal' = 0
       ELSE UNCHANGED <<terminal, terminals>>
  /\ pc' = [pc EXCEPT ![i] = "L137"]
  /\ UNCHANGED <<frame, prev, sentTo, running>>
  /\ UNCHANGED <<configVars, initWsVars, rpcVars>>

\* test_dispose with line 135 lost: the slot keeps the disposed terminal
test_dispose_keepSlot(i) ==
  /\ running = i
  /\ pc[i] = "L133"
  /\ IF terminal # 0
       THEN terminals' = [terminals EXCEPT ![terminal].disposed = TRUE]
       ELSE UNCHANGED terminals
  /\ pc' = [pc EXCEPT ![i] = "L137"]
  /\ UNCHANGED <<terminal, frame, prev, sentTo, running>>
  /\ UNCHANGED <<configVars, initWsVars, rpcVars>>

\* lines 133-136
test_dispose(i) ==
  /\ running = i
  /\ pc[i] = "L133"
  /\ IF terminal # 0
       THEN /\ terminals' = [terminals EXCEPT ![terminal].disposed = TRUE]
            /\ terminal' = 0
       ELSE UNCHANGED <<terminal, terminals>>
  /\ pc' = [pc EXCEPT ![i] = "L137"]
  /\ UNCHANGED <<frame, prev, sentTo, running>>
  /\ UNCHANGED <<configVars, initWsVars, rpcVars>>

\* line 137, the call workspace.createTerminal({name, cwd, env}); the await
\* gives the thread up.
test_createTerminal(i) ==
  /\ running = i
  /\ pc[i] = "L137"
  /\ pc' = [pc EXCEPT ![i] = "awaiting"]
  /\ running' = 0
  /\ UNCHANGED <<terminal, terminals, frame, prev, sentTo>>
  /\ UNCHANGED <<configVars, initWsVars, rpcVars>>

\* the options line 137 passes
CreateTerminalOptions(i) ==
  [name |-> frame[i].name, cwd |-> WorkspaceRoot, env |-> frame[i].env]

\* The host makes the terminal and resolves the promise of line 137.
createTerminal_resolve(i) ==
  /\ pc[i] = "awaiting"
  /\ LET o == CreateTerminalOptions(i) IN
       terminals' = [terminals EXCEPT ![i] =
         [created |-> TRUE, disposed |-> FALSE, name |-> o.name, cwd |-> o.cwd,
          env |-> o.env, input |-> <<>>]]
  /\ pc' = [pc EXCEPT ![i] = "resolved"]
  /\ UNCHANGED <<terminal, frame, prev, sentTo, running>>
  /\ UNCHANGED <<configVars, initWsVars, rpcVars>>

\* The host fails to make the terminal: the promise of line 137 rejects, and
\* with it the promise test() returned.
createTerminal_reject(i) ==
  /\ pc[i] = "awaiting"
  /\ pc' = [pc EXCEPT ![i] = "createFailed"]
  /\ frame' = [frame EXCEPT ![i] = NoFrame]
  /\ UNCHANGED <<terminal, terminals, prev, sentTo, running>>
  /\ UNCHANGED <<configVars, initWsVars, rpcVars>>

\* line 137, the assignment `terminal = <awaited value>`
test_assign(i) ==
  /\ running = 0
  /\ pc[i] = "resolved"
  /\ terminal' = i
  /\ pc' = [pc EXCEPT ![i] = "L138"]
  /\ running' = i
  /\ UNCHANGED <<terminals, frame, prev, sentTo>>
  /\ UNCHANGED <<configVars, initWsVars, rpcVars>>

\* test_sendText with the text sent twice
test_sendText_twice(i) ==
  /\ running = i
  /\ pc[i] = "L138"
  /\ LET text == CommandLine(frame[i].bin, frame[i].args) IN
       terminals' = [terminals EXCEPT ![terminal].input = Append(Append(@, text), text)]
  /\ sentTo' = [sentTo EXCEPT ![i] = terminal]
  /\ pc' = [pc EXCEPT ![i] = "done"]
  /\ frame' = [frame EXCEPT ![i] = NoFrame]
  /\ running' = 0
  /\ UNCHANGED <<terminal, prev>>
  /\ UNCHANGED <<configVars, initWsVars, rpcVars>>

\* line 138: sendText on whatever the slot holds
test_sendText(i) ==
  /\ running = i
  /\ pc[i] = "L138"
  /\ terminals' = [terminals EXCEPT ![terminal].input =
       Append(@, CommandLine(frame[i].bin, frame[i].args))]
  /\ sentTo' = [sentTo EXCEPT ![i] = terminal]
  /\ pc' = [pc EXCEPT ![i] = "done"]
  /\ frame' = [frame EXCEPT ![i] = NoFrame]
  /\ running' = 0
  /\ UNCHANGED <<terminal, prev>>
  /\ UNCHANGED <<configVars, initWsVars, rpcVars>>

\* No test() invocation is between its call and its settlement.
NoTestInFlight == \A j \in Inv : pc[j] \in {"idle", "threw", "createFailed", "done"}

\* ------------------------------------------------------- checkTSServer

\* lines 169-171: `tsserverConfig.get<boolean>("enable")` is truthy
TsserverEnabled(conf) == Get(conf["tsserver"], "enable", FALSE) = TRUE

\* lines 171-172: the configuration checkTSServer leaves
CheckTSServerConf(conf) ==
  IF TsserverEnabled(conf) THEN Update(conf, "tsserver", "enable", Bool(FALSE)) ELSE conf

\* CheckTSServerRestarts without the test of line 171
CheckTSServerRestarts_always(conf) == 1

\* lines 171-173: the `CocRestart` commands checkTSServer sends
CheckTSServerRestarts(conf) == IF TsserverEnabled(conf) THEN 1 ELSE 0

\* lines 168-175, called on its own (the function is exported)
checkTSServer ==
  /\ running = 0
  /\ tsChecks < MaxChecks
  /\ configuration' = CheckTSServerConf(configuration)
  /\ restarts' = restarts + CheckTSServerRestarts(configuration)
  /\ tsChecks' = tsChecks + 1
  /\ UNCHANGED <<prettierInstalled, iwPc, iwItems, iwCount, iwLast, messages>>
  /\ UNCHANGED <<testVars, rpcVars>>

\* ------------------------------------------------- initializeWorkspace

linting == "Enable Deno linting?"
unstable == "Enable Deno unstable APIs?"
prettier == "Disable coc-prettier for current project?"

\* lines 63-66
Items(installed) == <<linting, unstable>> \o (IF installed THEN <<prettier>> ELSE <<>>)

Range(f) == {f[k] : k \in DOMAIN f}

\* lines 58-67: build the items and open the picker; the await gives the thread up
initializeWorkspace_invoke ==
  /\ running = 0
  /\ iwPc = "idle"
  /\ iwCount < MaxInitWs
  /\ iwItems' = Items(prettierInstalled)
  /\ iwPc' = "picking"
  /\ iwCount' = iwCount + 1
  /\ UNCHANGED <<iwLast, messages, restarts, tsChecks>>
  /\ UNCHANGED <<configVars, testVars, rpcVars>>

\* initializeWorkspace_dismissed without the return of line 68
initializeWorkspace_dismissed_writes ==
  /\ running = 0
  /\ iwPc = "picking"
  /\ iwPc' = "idle"
  /\ iwLast' = "dismissed"
  /\ configuration' = Update(configuration, EXTENSION_NS, "enable", Bool(TRUE))
  /\ messages' = messages + 1
  /\ UNCHANGED <<prettierInstalled, iwItems, iwCount, restarts, tsChecks>>
  /\ UNCHANGED <<testVars, rpcVars>>

\* lines 67-68: the picker is dismissed, showPickerDialog resolves undefined
initializeWorkspace_dismissed ==
  /\ running = 0
  /\ iwPc = "picking"
  /\ iwPc' = "idle"
  /\ iwLast' = "dismissed"
  /\ UNCHANGED <<iwItems, iwCount, messages, restarts, tsChecks>>
  /\ UNCHANGED <<configVars, testVars, rpcVars>>

\* lines 69-72: the three updates of the extension's namespace
WriteSettings(conf, settings) ==
  Update(Update(Update(conf,
      EXTENSION_NS, "enable", Bool(TRUE)),
      EXTENSION_NS, "lint", Bool(linting \in settings)),
      EXTENSION_NS, "unstable", Bool(unstable \in settings))

\* lines 74-77
WritePrettier(conf, settings) ==
  IF prettier \in settings
    THEN Update(conf, "prettier", "disableLanguages", Arr(<<"typescript", "javascript">>))
    ELSE conf

\* lines 67-80: the picker resolves with the chosen items (possibly none); the
\* rest of the callback runs without giving the thread up (checkTSServer has
\* no await of its own).
initializeWorkspace_picked(settings) ==
  /\ running = 0
  /\ iwPc = "picking"
  /\ settings \subseteq Range(iwItems)
  /\ LET written == WritePrettier(WriteSettings(configuration, settings), settings) IN
       /\ configuration' = CheckTSServerConf(written)
       /\ restarts' = restarts + CheckTSServerRestarts(written)
  /\ messages' = messages + 1
  /\ tsChecks' = tsChecks + 1
  /\ iwPc' = "idle"
  /\ iwLast' = "configured"
  /\ UNCHANGED <<prettierInstalled, iwItems, iwCount>>
  /\ UNCHANGED <<testVars, rpcVars>>

\* ------------------------------------------------------ client requests

\* lsp_extensions.ts (imported at lines 20-22): the request descriptors
cacheReq == "deno/cache"
virtualTextDocument == "deno/virtualTextDocument"

\* how a request sent through client.sendRequest can fail
Failures == {"connection error", "error response"}

NoRequest ==
  [count |-> 0, method |-> "", params |-> <<>>, state |-> "none", error |-> "",
   response |-> <<>>]

\* client.sendRequest(method, params) on top of what the invocation sent before
SendRequest(before, method, params) ==
  [count |-> before.count + 1, method |-> method, params |-> params, state |-> "pending",
   error |-> "", response |-> <<>>]

\* ------------------------------------------------------------------ cache

Docs == {"file:///x.ts", "file:///y.ts"}

\* CacheParams with the document read once, when the callback was bound
CacheParams_boundDocument(doc) == [referrer |-> [uri |-> "file:///x.ts"], uris |-> <<>>]

\* lines 48-51: the payload of the Cache request
CacheParams(doc) == [referrer |-> [uri |-> doc], uris |-> <<>>]

NoScope == [title |-> "", cancellable |-> FALSE, open |-> FALSE, cancelled |-> FALSE]

\* lines 42-45: the options of window.withProgress
ProgressScope == [title |-> "caching", cancellable |-> TRUE, open |-> TRUE, cancelled |-> FALSE]

NextCacheInvocation(c) == cpc[c] = "idle" /\ \A j \in CInv : j < c => cpc[j] # "idle"

\* the user moves to another document
switchDocument(d) ==
  /\ d # activeDoc
  /\ activeDoc' = d
  /\ UNCHANGED <<cpc, cdoc, creq, cscope, cresult>>
  /\ UNCHANGED <<configVars, testVars, initWsVars, statusVars, restartVars>>

\* lines 40-41: the callback is invoked and asks workspace.getCurrentState(),
\* which looks at the document active now; the await gives the thread up
cache_invoke(c) ==
  /\ running = 0
  /\ NextCacheInvocation(c)
  /\ cdoc' = [cdoc EXCEPT ![c] = activeDoc]
  /\ cpc' = [cpc EXCEPT ![c] = "gettingState"]
  /\ UNCHANGED <<activeDoc, creq, cscope, cresult>>
  /\ UNCHANGED <<configVars, testVars, initWsVars, statusVars, restartVars>>

\* lines 41-53: the state arrives; the progress scope opens and its task sends
\* the Cache request (the task takes no parameter: withProgress's cancellation
\* token goes nowhere); the callback returns the promise of withProgress
cache_withProgress(c) ==
  /\ running = 0
  /\ cpc[c] = "gettingState"
  /\ cscope' = [cscope EXCEPT ![c] = ProgressScope]
  /\ creq' = [creq EXCEPT ![c] = SendRequest(creq[c], cacheReq, CacheParams(cdoc[c]))]
  /\ cpc' = [cpc EXCEPT ![c] = "inProgress"]
  /\ UNCHANGED <<activeDoc, cdoc, cresult>>
  /\ UNCHANGED <<configVars, testVars, initWsVars, statusVars, restartVars>>

\* cache_response with the progress scope left open
cache_response_scopeLeftOpen(c) ==
  /\ running = 0
  /\ creq[c].state = "pending"
  /\ creq' = [creq EXCEPT ![c].state = "ok"]
  /\ cpc' = [cpc EXCEPT ![c] = "resolved"]
  /\ cresult' = [cresult EXCEPT ![c] = "ok"]
  /\ UNCHANGED <<activeDoc, cdoc, cscope>>
  /\ UNCHANGED <<configVars, testVars, initWsVars, statusVars, restartVars>>

\* the analysis process answers: the task's promise resolves, the scope
\* closes and the callback's promise resolves
cache_response(c) ==
  /\ running = 0
  /\ creq[c].state = "pending"
  /\ creq' = [creq EXCEPT ![c].state = "ok"]
  /\ cscope' = [cscope EXCEPT ![c].open = FALSE]
  /\ cpc' = [cpc EXCEPT ![c] = "resolved"]
  /\ cresult' = [cresult EXCEPT ![c] = "ok"]
  /\ UNCHANGED <<activeDoc, cdoc>>
  /\ UNCHANGED <<configVars, testVars, initWsVars, statusVars, restartVars>>

\* cache_error with the failure swallowed: the callback resolves
cache_error_swallowed(c, failure) ==
  /\ running = 0
  /\ creq[c].state = "pending"
  /\ creq' = [creq EXCEPT ![c].state = "error", ![c].error = failure]
  /\ cscope' = [cscope EXCEPT ![c].open = FALSE]
  /\ cpc' = [cpc EXCEPT ![c] = "resolved"]
  /\ cresult' = [cresult EXCEPT ![c] = "ok"]
  /\ UNCHANGED <<activeDoc, cdoc>>
  /\ UNCHANGED <<configVars, testVars, initWsVars, statusVars, restartVars>>

\* the request fails: the task's promise rejects, nothing in lines 40-54
\* catches it, and the callback's promise rejects with the same failure
cache_error(c, failure) ==
  /\ running = 0
  /\ creq[c].state = "pending"
  /\ creq' = [creq EXCEPT ![c].state = "error", ![c].error = failure]
  /\ cscope' = [cscope EXCEPT ![c].open = FALSE]
  /\ cpc' = [cpc EXCEPT ![c] = "rejected"]
  /\ cresult' = [cresult EXCEPT ![c] = failure]
  /\ UNCHANGED <<activeDoc, cdoc>>
  /\ UNCHANGED <<configVars, testVars, initWsVars, statusVars, restartVars>>

\* lines 43-45: the scope is cancellable and the user cancels it.  The token
\* withProgress hands to the task is not a parameter of the task (line 45) and
\* is not passed to client.sendRequest (lines 46-52): the request stays as it is.
cache_cancel(c) ==
  /\ running = 0
  /\ cscope[c].open /\ cscope[c].cancellable /\ ~cscope[c].cancelled
  /\ cscope' = [cscope EXCEPT ![c].cancelled = TRUE]
  /\ UNCHANGED <<activeDoc, cpc, cdoc, creq, cresult>>
  /\ UNCHANGED <<configVars, testVars, initWsVars, statusVars, restartVars>>

\* ----------------------------------------------------------------- status

RECURSIVE SplitFrom(_, _, _, _)
SplitFrom(chars, sep, line, lines) ==
  IF chars = <<>> THEN Append(lines, line)
  ELSE IF Head(chars) = sep THEN SplitFrom(Tail(chars), sep, "", Append(lines, line))
  ELSE SplitFrom(Tail(chars), sep, line \o Head(chars), lines)

\* Split with the empty lines dropped
Split_dropEmpty(chars, sep) ==
  SelectSeq(SplitFrom(chars, sep, "", <<>>), LAMBDA l : l # "")

\* String.prototype.split(sep), on a string given by its characters
Split(chars, sep) == SplitFrom(chars, sep, "", <<>>)

\* the contents the analysis process may answer with, by their characters
Contents == { <<>>, <<"a">>, <<"a", "\n", "b", "c">>, <<"b", "\n", "\n", "a", "\n">> }

\* lines 105-107: the payload of the VirtualTextDocument request
StatusParams == [textDocument |-> [uri |-> "deno:/status.md"]]

NextStatusInvocation(n) == spc[n] = "idle" /\ \A j \in SInv : j < n => spc[j] # "idle"

\* lines 104-107: the request is sent; the await gives the thread up
status_invoke(n) ==
  /\ running = 0
  /\ NextStatusInvocation(n)
  /\ sreq' = [sreq EXCEPT ![n] = SendRequest(sreq[n], virtualTextDocument, StatusParams)]
  /\ spc' = [spc EXCEPT ![n] = "awaiting"]
  /\ UNCHANGED <<sresult, echoed>>
  /\ UNCHANGED <<configVars, testVars, initWsVars, cacheVars, restartVars>>

\* lines 105-108: the response arrives and its lines are echoed
status_response(n, content) ==
  /\ running = 0
  /\ sreq[n].state = "pending"
  /\ sreq' = [sreq EXCEPT ![n].state = "ok", ![n].response = content]
  /\ echoed' = [echoed EXCEPT ![n] = Append(@, Split(content, "\n"))]
  /\ spc' = [spc EXCEPT ![n] = "resolved"]
  /\ sresult' = [sresult EXCEPT ![n] = "ok"]
  /\ UNCHANGED <<configVars, testVars, initWsVars, cacheVars, restartVars>>

\* lines 105-108: the request fails, the await throws and the callback's
\* promise rejects; line 108 is not reached
status_error(n, failure) ==
  /\ running = 0
  /\ sreq[n].state = "pending"
  /\ sreq' = [sreq EXCEPT ![n].state = "error", ![n].error = failure]
  /\ spc' = [spc EXCEPT ![n] = "rejected"]
  /\ sresult' = [sresult EXCEPT ![n] = failure]
  /\ UNCHANGED echoed
  /\ UNCHANGED <<configVars, testVars, initWsVars, cacheVars, restartVars>>

\* ---------------------------------------------------------------- restart

NextRestartInvocation(r) == rpc[r] = "idle" /\ \A j \in RInv : j < r => rpc[j] # "idle"

\* a continuation of line 162 is waiting for the thread
ContinuationPending == \E q \in RInv : rpc[q] = "stopResolved"

\* lines 161-162: the callback is invoked and calls client.stop(); the await
\* gives the thread up.  Continuations that are ready run before a new callback.
restart_invoke(r) ==
  /\ running = 0
  /\ ~ContinuationPending
  /\ NextRestartInvocation(r)
  /\ rpc' = [rpc EXCEPT ![r] = "stopping"]
  /\ clientLog' = Append(clientLog, [op |-> "stop", by |-> r])
  /\ UNCHANGED clientUp
  /\ UNCHANGED <<configVars, testVars, initWsVars, cacheVars, statusVars>>

\* the promise of this invocation's stop() resolves: the connection is down.
\* Stops of several invocations may settle one after the other before any
\* continuation runs (the client may hand every caller the same promise).
stop_resolve(r) ==
  /\ running = 0
  /\ rpc[r] = "stopping"
  /\ rpc' = [rpc EXCEPT ![r] = "stopResolved"]
  /\ clientUp' = FALSE
  /\ clientLog' = Append(clientLog, [op |-> "stopped", by |-> r])
  /\ UNCHANGED <<configVars, testVars, initWsVars, cacheVars, statusVars>>

\* the promise of this invocation's stop() rejects: the await of line 162
\* throws, line 163 is not reached and the callback's promise rejects
stop_reject(r) ==
  /\ running = 0
  /\ ~ContinuationPending
  /\ rpc[r] = "stopping"
  /\ rpc' = [rpc EXCEPT ![r] = "failed"]
  /\ clientLog' = Append(clientLog, [op |-> "stop failed", by |-> r])
  /\ UNCHANGED clientUp
  /\ UNCHANGED <<configVars, testVars, initWsVars, cacheVars, statusVars>>

\* line 163: the continuation calls client.start()
restart_start(r) ==
  /\ running = 0
  /\ rpc[r] = "stopResolved"
  /\ rpc' = [rpc EXCEPT ![r] = "done"]
  /\ clientUp' = TRUE
  /\ clientLog' = Append(clientLog, [op |-> "start", by |-> r])
  /\ UNCHANGED <<configVars, testVars, initWsVars, cacheVars, statusVars>>

\* ------------------------------------------------------- specifications

vars == <<configVars, testVars, initWsVars, rpcVars>>

InitTestVars ==
  /\ terminal = 0
  /\ terminals = [t \in Inv |-> NoTerminal]
  /\ pc = [i \in Inv |-> "idle"]
  /\ frame = [i \in Inv |-> NoFrame]
  /\ prev = [i \in Inv |-> 0]
  /\ sentTo = [i \in Inv |-> 0]
  /\ running = 0

InitInitWsVars ==
  /\ iwPc = "idle"
  /\ iwItems = <<>>
  /\ iwCount = 0
  /\ iwLast = "none"
  /\ messages = 0
  /\ restarts = 0
  /\ tsChecks = 0

InitRpcVars ==
  /\ activeDoc = "file:///x.ts"
  /\ cpc = [c \in CInv |-> "idle"]
  /\ cdoc = [c \in CInv |-> ""]
  /\ creq = [c \in CInv |-> NoRequest]
  /\ cscope = [c \in CInv |-> NoScope]
  /\ cresult = [c \in CInv |-> ""]
  /\ spc = [n \in SInv |-> "idle"]
  /\ sreq = [n \in SInv |-> NoRequest]
  /\ sresult = [n \in SInv |-> ""]
  /\ echoed = [n \in SInv |-> <<>>]
  /\ rpc = [r \in RInv |-> "idle"]
  /\ clientUp = TRUE
  /\ clientLog = <<>>

Configurations(denos) ==
  { [deno |-> d, tsserver |-> t, prettier |-> p] :
      d \in denos, t \in TsserverConfigs, p \in PrettierConfigs }

\* The configurations of the terminal-lifecycle specifications: only testArgs varies.
LifecycleConfigs ==
  { d \in DenoConfigs :
      /\ ~Has(d, "unstable") /\ ~Has(d, "importMap")
      /\ ~Has(d, "cache") /\ ~Has(d, "path") }

\* After activation: nothing invoked yet.
Init ==
  /\ configuration \in Configurations(LifecycleConfigs)
  /\ configuration["tsserver"] = [enable |-> UndefinedBool]
  /\ prettierInstalled = FALSE
  /\ InitTestVars
  /\ InitInitWsVars
  /\ InitRpcVars

\* The steps of test() after its invocation, and the host's answers.
TestSteps ==
  \E i \in Inv :
    \/ test_dispose(i)
    \/ test_createTerminal(i)
    \/ createTerminal_resolve(i)
    \/ createTerminal_reject(i)
    \/ test_assign(i)
    \/ test_sendText(i)

\* test() invoked at any time, also while earlier invocations are awaiting.
test_invoke == \E i \in Inv, uri \in Uris, name \in Names : test_build(i, uri, name)

Next == test_invoke \/ TestSteps

Spec == Init /\ [][Next]_vars

\* test() invoked only when every earlier invocation has settled.
test_invoke_seq == NoTestInFlight /\ test_invoke

NextSeq == test_invoke_seq \/ TestSteps

SpecSeq == Init /\ [][NextSeq]_vars

\* The configurations of the settings specification: the flags and testArgs vary.
SettingsConfigs ==
  { d \in DenoConfigs :
      /\ ~Has(d, "importMap") /\ ~Has(d, "cache") /\ ~Has(d, "path")
      /\ TestArgsIterable(d) }

InitConfig ==
  /\ configuration \in Configurations(SettingsConfigs)
  /\ prettierInstalled \in BOOLEAN
  /\ InitTestVars
  /\ InitInitWsVars
  /\ InitRpcVars

\* test() invoked between the other commands, one invocation at a time
test_invoke_cfg ==
  /\ NoTestInFlight
  /\ \E i \in 1 .. MaxCfgInv, uri \in Uris, name \in Names : test_build(i, uri, name)

\* the user's answer to the picker
initializeWorkspace_answer ==
  \E settings \in SUBSET {linting, unstable, prettier} : initializeWorkspace_picked(settings)

NextConfig ==
  \/ initializeWorkspace_invoke
  \/ initializeWorkspace_dismissed
  \/ initializeWorkspace_answer
  \/ checkTSServer
  \/ test_invoke_cfg
  \/ TestSteps

SpecConfig == InitConfig /\ [][NextConfig]_vars

\* The command-line specification: every setting test() reads varies; test()
\* is the only command invoked.
InitCmd ==
  /\ configuration \in Configurations(DenoConfigs)
  /\ configuration["tsserver"] = [enable |-> UndefinedBool]
  /\ prettierInstalled = FALSE
  /\ InitTestVars
  /\ InitInitWsVars
  /\ InitRpcVars

NextCmd == test_invoke_cfg \/ TestSteps

SpecCmd == InitCmd /\ [][NextCmd]_vars

\* The cache and status callbacks, invoked at any time.
cache_steps ==
  \E c \in CInv :
    \/ cache_invoke(c)
    \/ cache_withProgress(c)
    \/ cache_response(c)
    \/ \E failure \in Failures : cache_error(c, failure)
    \/ cache_cancel(c)

StatusSteps(n) ==
  \/ status_invoke(n)
  \/ \E content \in Contents : status_response(n, content)
  \/ \E failure \in Failures : status_error(n, failure)

status_steps == \E n \in SInv : StatusSteps(n)

NextCache ==
  \/ \E d \in Docs : switchDocument(d)
  \/ cache_steps
  \/ \E n \in 1 .. MaxCacheStatus : StatusSteps(n)

\* The callbacks read no setting: one configuration.
InitCache ==
  /\ Init
  /\ ~Has(configuration[EXTENSION_NS], "testArgs")

SpecCache == InitCache /\ [][NextCache]_vars

\* The status callback alone, invoked at any time.
NextStatus == status_steps

SpecStatus == InitCache /\ [][NextStatus]_vars

\* The restart callback alone, invoked at any time.
NextRestart ==
  \E r \in RInv :
    \/ restart_invoke(r)
    \/ stop_resolve(r)
    \/ stop_reject(r)
    \/ restart_start(r)

SpecRestart == InitCache /\ [][NextRestart]_vars

\* ------------------------------------------- claims: terminal lifecycle

\* C1: when test() invocations run one after another, right after an
\* invocation has sent its command line (no later invocation begun) the slot
\* holds the terminal that invocation created, it is the only terminal not
\* disposed, and every terminal an earlier invocation created is disposed.
C1_SingleLiveTerminal ==
  \A i \in Inv :
    (pc[i] = "done" /\ \A j \in Inv : j > i => pc[j] = "idle")
      => /\ terminal = i
         /\ Live = {i}
         /\ \A t \in Created \ {i} : terminals[t].disposed

\* a later invocation has sent its command line and an earlier one's terminal is disposed
C1_Witness ==
  \E i, t \in Inv :
    /\ t < i
    /\ pc[i] = "done" /\ \A j \in Inv : j > i => pc[j] = "idle"
    /\ terminals[t].created /\ terminals[t].disposed
    /\ terminals[i].input # <<>>

\* C2: under every interleaving of concurrent test() invocations there is
\* never a state in which two created terminals are both undisposed.
C2_AtMostOneLive == Cardinality(Live) <= 1

\* C3: once an invocation that began with a terminal in the slot stands before
\* its createTerminal call (line 137) or beyond it, that terminal has been
\* disposed, whatever the names and uris of the two invocations.
C3_DisposeBeforeCreate ==
  \A i \in Inv :
    (prev[i] # 0 /\ pc[i] \in {"L137", "awaiting", "resolved", "createFailed", "L138", "done"})
      => terminals[prev[i]].disposed

\* an invocation with the same name and the same command line (same file) as
\* the one whose terminal it found in the slot stands before createTerminal
C3_Witness ==
  \E i \in Inv :
    /\ pc[i] = "L137"
    /\ prev[i] # 0
    /\ terminals[prev[i]].disposed
    /\ terminals[prev[i]].name = frame[i].name
    /\ terminals[prev[i]].input = <<CommandLine(frame[i].bin, frame[i].args)>>

\* C4: the step in which test() throws while building its command line leaves
\* the slot and every terminal as they were (nothing disposed, nothing
\* cleared), and an invocation that threw stays rejected: it never creates a
\* terminal and never sends text.
C4_FailedBuildTouchesNothing ==
  /\ [][\A i \in Inv :
          (pc[i] = "idle" /\ pc'[i] = "threw")
            => (terminal' = terminal /\ terminals' = terminals)]_vars
  /\ [](\A i \in Inv : pc[i] = "threw" => (~terminals[i].created /\ sentTo[i] = 0))
  /\ [][\A i \in Inv : pc[i] = "threw" => pc'[i] = "threw"]_vars

\* an invocation threw while a terminal was held, and that terminal is still
\* held and not disposed
C4_Witness ==
  \E i \in Inv :
    /\ pc[i] = "threw"
    /\ prev[i] # 0
    /\ terminal = prev[i]
    /\ ~terminals[prev[i]].disposed

\* -------------------------------------------------- claims: command line

\* C10: the argument list test() builds holds --unstable if and only if the
\* "unstable" flag of the configuration is true.
C10_UnstableIffFlagTrue ==
  \A i \in Inv :
    pc[i] = "L133" =>
      (("--unstable" \in Range(frame[i].args))
         <=> (configuration[EXTENSION_NS]["unstable"] = Bool(TRUE)))

\* ------------------------------------------------ claims: cache, status

CachePending == {c \in CInv : creq[c].state = "pending"}

\* C5: once the user has cancelled the progress scope of a cache invocation,
\* its Cache request is no longer waited for and the callback is no longer
\* in progress.
C5_CancelStopsWaiting ==
  \A c \in CInv :
    cscope[c].cancelled => (creq[c].state # "pending" /\ cpc[c] # "inProgress")

\* C6 as stated: at any time at most one Cache request is in flight.
C6_AtMostOneCaching == Cardinality(CachePending) <= 1

\* C6 as amended: invocations of the cache callback are not serialized; each
\* one sends a single Cache request and opens a single progress scope, both in
\* flight exactly while that invocation is in progress, so as many requests
\* are in flight as invocations are in progress.
C6_OneCachingPerInvocation ==
  \A c \in CInv :
    /\ creq[c].count <= 1
    /\ (creq[c].state = "pending") <=> (cpc[c] = "inProgress")
    /\ cscope[c].open <=> (cpc[c] = "inProgress")

\* two invocations are in progress, with two requests and two scopes in flight
C6_Witness ==
  \E c, d \in CInv :
    /\ c # d
    /\ creq[c].state = "pending" /\ creq[d].state = "pending"
    /\ cscope[c].open /\ cscope[d].open

\* C7: an invocation of the cache callback has sent nothing before its editor
\* state arrived and exactly one request after: the Cache request, with
\* payload {referrer: {uri: U}, uris: []}, U the document active when the
\* invocation was made, in a cancellable progress scope titled "caching".
C7_CacheRequestShape ==
  \A c \in CInv :
    /\ cpc[c] \in {"idle", "gettingState"} => creq[c].count = 0
    /\ cpc[c] \in {"inProgress", "resolved", "rejected"} =>
         /\ creq[c].count = 1
         /\ creq[c].method = cacheReq
         /\ creq[c].params = [referrer |-> [uri |-> cdoc[c]], uris |-> <<>>]
         /\ cscope[c].title = "caching"
         /\ cscope[c].cancellable

\* two invocations of the callback, made on different documents, have sent
\* different referrers, the first not the document active now
C7_Witness ==
  \E c, d \in CInv :
    /\ creq[c].count = 1 /\ creq[d].count = 1
    /\ cdoc[c] # cdoc[d]
    /\ creq[c].params.referrer.uri # creq[d].params.referrer.uri
    /\ creq[c].params.referrer.uri # activeDoc

\* C8: a failed request of the cache or the status callback rejects the
\* callback's promise with that failure; it was sent once (no retry), and the
\* status callback has echoed nothing.
C8_FailurePropagates ==
  /\ \A c \in CInv :
       creq[c].state = "error" =>
         /\ cpc[c] = "rejected"
         /\ cresult[c] = creq[c].error
         /\ cresult[c] \in Failures
         /\ creq[c].count = 1
  /\ \A n \in SInv :
       sreq[n].state = "error" =>
         /\ spc[n] = "rejected"
         /\ sresult[n] = sreq[n].error
         /\ sresult[n] \in Failures
         /\ sreq[n].count = 1
         /\ echoed[n] = <<>>

\* a Cache request failed on the connection and a status request failed with
\* an error response
C8_Witness ==
  /\ \E c \in CInv : creq[c].state = "error" /\ creq[c].error = "connection error"
  /\ \E n \in SInv : sreq[n].state = "error" /\ sreq[n].error = "error response"

\* ------------------------------------------- claims: terminal options

\* C11: the env test() passes to createTerminal, and the terminal is made
\* with, is the object {DENO_DIR: V} with that single variable when the
\* configuration has a "cache" value V, and is undefined (no object at all)
\* when it has none.
C11_EnvOverlay ==
  \A i \in Inv :
    LET cache == configuration[EXTENSION_NS]["cache"]
        passed == CreateTerminalOptions(i).env
        made == terminals[i].env
        Right(e) ==
          IF cache.type = "undefined"
            THEN ~e.defined /\ e.vars = {}
            ELSE e.defined /\ e.vars = {<<"DENO_DIR", cache.value>>}
    IN /\ pc[i] \in {"L133", "L137", "awaiting"} => Right(passed)
       /\ terminals[i].created => Right(made)

\* a terminal was made with DENO_DIR set from the "cache" setting
C11_Witness ==
  \E i \in Inv :
    /\ terminals[i].created
    /\ terminals[i].env = [defined |-> TRUE, vars |-> {<<"DENO_DIR", "/tmp/deno_dir">>}]

\* -------------------------------------------------- claims: text sent

RECURSIVE SpacePrefixed(_)
\* each element of arr after a single space, in order
SpacePrefixed(arr) ==
  IF arr = <<>> THEN "" ELSE " " \o Head(arr) \o SpacePrefixed(Tail(arr))

\* the command line of C12, written out piece by piece
ExpectedText(cfg, uri, name) ==
  (IF cfg["path"].type = "undefined" THEN "deno" ELSE cfg["path"].value)
    \o " test"
    \o (IF cfg["testArgs"].type = "undefined" THEN "" ELSE SpacePrefixed(cfg["testArgs"].value))
    \o (IF cfg["unstable"].type = "undefined" THEN "" ELSE " --unstable")
    \o (IF cfg["importMap"].type = "undefined" THEN "" ELSE " --import-map " \o cfg["importMap"].value)
    \o " --filter \"" \o name \o "\" "
    \o FsPath(uri)

\* C12: the text test() sends to the terminal is the single-space join of the
\* executable (the "path" setting, or deno), test, the configured testArgs in
\* order, --unstable when the code appends it, --import-map and its value
\* when set, --filter, the name in literal double quotes, and the
\* filesystem path of the uri, in this order; and that one text is all the
\* step sends.
C12_CommandLineText ==
  [][\A i \in Inv :
       (pc[i] = "L138" /\ pc'[i] = "done") =>
         terminals'[terminal].input =
           Append(terminals[terminal].input,
                  ExpectedText(configuration[EXTENSION_NS], frame[i].uri, frame[i].name))]_vars

\* a terminal received the command line with every optional part present
C12_Witness ==
  \E t \in Inv :
    terminals[t].input =
      << "/opt/deno test -A --coverage --unstable --import-map ./import_map.json --filter \"my test\" /a/my dir/b.ts" >>

\* ------------------------------------------ claims: initializeWorkspace

\* the step in which an initializeWorkspace invocation finishes
InitializeWorkspaceFinishes == iwPc = "picking" /\ iwPc' = "idle"

\* C14: when the picker is dismissed the invocation finishes without writing
\* any configuration key, in any namespace, and without showing the success
\* message.
C14_DismissedIsNoOp ==
  [][(InitializeWorkspaceFinishes /\ iwLast' = "dismissed") =>
       /\ configuration' = configuration
       /\ messages' = messages]_vars

\* an invocation was dismissed and no message was ever shown
C14_Witness == iwCount = 1 /\ iwPc = "idle" /\ iwLast = "dismissed" /\ messages = 0

\* C15: every invocation of initializeWorkspace, whatever the picker's
\* outcome, runs checkTSServer in the step in which it finishes.
C15_AlwaysChecks ==
  [][InitializeWorkspaceFinishes => tsChecks' = tsChecks + 1]_vars

\* ----------------------------------------------- claims: checkTSServer

\* C16: a run of checkTSServer with tsserver.enable true sets it to false and
\* sends one CocRestart; a run with it false or unset writes nothing and
\* sends none.  Running it on the configuration it leaves changes nothing
\* and sends no restart, so two runs in a row send at most one.
C16_CheckIdempotent ==
  /\ [][tsChecks' = tsChecks + 1 =>
          IF TsserverEnabled(configuration)
            THEN /\ configuration'["tsserver"]["enable"] = Bool(FALSE)
                 /\ restarts' = restarts + 1
            ELSE /\ configuration'["tsserver"] = configuration["tsserver"]
                 /\ iwPc' = iwPc => configuration' = configuration
                 /\ restarts' = restarts]_vars
  /\ [](LET once == CheckTSServerConf(configuration) IN
          /\ CheckTSServerConf(once) = once
          /\ CheckTSServerRestarts(configuration) + CheckTSServerRestarts(once) <= 1)
  /\ [](tsChecks >= 1 => ~TsserverEnabled(configuration) /\ restarts <= 1)

\* checkTSServer ran twice and only the first run restarted the host
C16_Witness ==
  /\ tsChecks = 2
  /\ restarts = 1
  /\ configuration["tsserver"]["enable"] = Bool(FALSE)

\* ------------------------------------------------------ claims: status

RECURSIVE Flat(_)
\* the string made of the characters chars
Flat(chars) == IF chars = <<>> THEN "" ELSE Head(chars) \o Flat(Tail(chars))

\* the number of newline characters in chars
Newlines(chars) == Cardinality({k \in DOMAIN chars : chars[k] = "\n"})

\* C13: every invocation of the status callback has sent exactly one
\* VirtualTextDocument request, for deno:/status.md, so k invocations have
\* sent k requests; one that got its response made one echoLines call, with
\* the response cut at its newline characters: one line more than there are
\* newlines, and the lines joined by newlines give the response back.
C13_StatusRequestAndLines ==
  \A n \in SInv :
    /\ spc[n] = "idle" => sreq[n].count = 0
    /\ spc[n] # "idle" =>
         /\ sreq[n].count = 1
         /\ sreq[n].method = virtualTextDocument
         /\ sreq[n].params = [textDocument |-> [uri |-> "deno:/status.md"]]
    /\ spc[n] = "resolved" =>
         /\ Len(echoed[n]) = 1
         /\ Len(echoed[n][1]) = Newlines(sreq[n].response) + 1
         /\ Join(echoed[n][1], "\n") = Flat(sreq[n].response)
    /\ spc[n] # "resolved" => echoed[n] = <<>>

\* three invocations sent three requests; the first echoed a response that
\* has empty lines, the second a response without a newline
C13_Witness ==
  /\ \A n \in SInv : sreq[n].count = 1
  /\ spc[1] = "resolved" /\ echoed[1] = << <<"b", "", "a", "">> >>
  /\ spc[2] = "resolved" /\ echoed[2] = << <<"a">> >>
  /\ spc[3] = "awaiting"

\* ------------------------------------------- claims: the terminal slot

\* C18: the slot never holds a terminal that has been disposed, whatever the
\* interleaving of test() invocations and also after a createTerminal that
\* failed: the slot is then empty.
C18_SlotNeverStale == terminal # 0 => terminals[terminal].created /\ ~terminals[terminal].disposed

\* an invocation disposed the terminal it found, its createTerminal failed,
\* and the slot is empty
C18_Witness ==
  \E i \in Inv :
    /\ pc[i] = "createFailed"
    /\ prev[i] # 0
    /\ terminals[prev[i]].disposed
    /\ terminal = 0

\* C19: an invocation whose createTerminal succeeded sends its command line
\* once, to the terminal made for it, which is not disposed at that moment;
\* no terminal ever receives the text of another invocation or a second text.
C19_SendsOnceToOwnTerminal ==
  /\ [][\A i \in Inv :
          (pc[i] = "L138" /\ pc'[i] = "done") =>
            /\ terminal = i
            /\ ~terminals[i].disposed
            /\ terminals'[i].input = << CommandLine(frame[i].bin, frame[i].args) >>
            /\ \A t \in Inv \ {i} : terminals'[t] = terminals[t]]_vars
  /\ [](\A i \in Inv :
          /\ sentTo[i] # 0 => sentTo[i] = i
          /\ pc[i] = "done" => sentTo[i] = i /\ Len(terminals[i].input) = 1
          /\ pc[i] # "done" => sentTo[i] = 0 /\ terminals[i].input = <<>>)

\* two overlapping invocations (the second began before the first stored its
\* terminal) each sent to their own terminal
C19_Witness ==
  /\ pc[1] = "done" /\ pc[2] = "done"
  /\ prev[2] = 0
  /\ sentTo[1] = 1 /\ sentTo[2] = 2
  /\ Len(terminals[1].input) = 1 /\ Len(terminals[2].input) = 1

\* ----------------------------------------------------- claims: restart

\* the step in which invocation r calls client.start()
StartCalledBy(r) == rpc[r] = "stopResolved" /\ rpc'[r] = "done"

\* C17: start() is called by an invocation only after its own stop() has
\* completed, and never by one whose stop() failed; and when it is called no
\* stop() of another invocation is still in progress and the client has not
\* been started again in the meantime.
C17_StartOnlyOnStoppedClient ==
  /\ [](\A k \in DOMAIN clientLog :
          clientLog[k].op = "start" =>
            /\ \E j \in 1 .. k - 1 : clientLog[j] = [op |-> "stopped", by |-> clientLog[k].by]
            /\ \A j \in DOMAIN clientLog : clientLog[j] # [op |-> "stop failed", by |-> clientLog[k].by])
  /\ [][\A r \in RInv :
          StartCalledBy(r) =>
            /\ \A q \in RInv \ {r} : rpc[q] # "stopping"
            /\ ~clientUp]_vars

====
